---- MODULE Spec2Model ----
(***************************************************************************)
(* Model of the Ansible module ad_dns (src/ad_dns.py): one DNS record of   *)
(* an Active Directory zone is reconciled to a desired state through the   *)
(* command line tool samba-tool.  A behaviour is a sequence of module      *)
(* runs with the same task parameters against one zone.                    *)
(***************************************************************************)
EXTENDS Naturals, Sequences, FiniteSets, TLC

VARIABLES
    zone,          \* records held by the AD DNS zone: [name, type, value]
    zoneExists,    \* whether the zone of the task exists on the server
    smbtool,       \* result of get_bin_path('samba-tool'): found or not
    faulted,       \* whether samba-tool has answered other than by its contract
    params,        \* module.params of the task
    check_mode,    \* module.check_mode of the current run
    pc,            \* position of the current run in main()
    reply,         \* (rc, stdout, stderr) of the query of the current run
    mreply,        \* (rc, stdout, stderr) of the add/delete of the current run
    exist_records, \* value returned by get_exist_dns
    invocations,   \* commands handed to run_command by the current run
    outcome,       \* what the current run handed to exit_json / fail_json
    zone0,         \* the zone when the current run started
    external,      \* records other actors added to the zone during the current run
    hist           \* summaries of the finished runs, oldest first

vars == <<zone, zoneExists, smbtool, faulted, params, check_mode, pc, reply,
          mreply, exist_records, invocations, outcome, zone0, external, hist>>

----------------------------------------------------------------------------
(* Bounds of the model *)

MaxRuns == 2          \* module runs in one behaviour
MaxZoneRecords == 2   \* records in the zone before the first run
MaxLines == 3         \* lines of a stdout handed to the parser

----------------------------------------------------------------------------
(* Task parameters *)

Types == {"A", "AAAA", "PTR", "CNAME", "NS", "MX", "SRV", "TXT"}
States == {"present", "absent"}
\* The record of the task; names are only compared, so one name stands for
\* the task's and another for every other record of the zone.
Record == "www"
Names == {Record, "web"}

\* Values are texts, kept as tuples of characters.
IP123 == <<"1", ".", "3">>
IP124 == <<"1", ".", "4">>
HostName == <<"w", ".", "c">>
IP6 == <<":", ":", "1">>
Values == {IP123, IP124, HostName, IP6}

Digits == {"0", "1", "2", "3", "4", "5", "6", "7", "8", "9"}
Chars(v) == {v[i] : i \in 1..Len(v)}

\* What the DNS server accepts as the data of a record of a type.
ValidValue(type, v) ==
    CASE type = "A" -> Chars(v) \subseteq Digits \cup {"."}
      [] type = "AAAA" -> ":" \in Chars(v)
      [] OTHER -> ":" \notin Chars(v)

Server == "dc01.example.com"
ZoneName == "example.com"
Username == "admin.user"
Password == "admin.password"

ParamSets ==
    {p \in [server : {Server}, username : {Username}, password : {Password},
            zone : {ZoneName}, record : {Record}, value : Values,
            type : Types, state : States] : ValidValue(p.type, p.value)}

----------------------------------------------------------------------------
(* samba-tool *)

ZONE_DOES_NOT_EXIST == "WERR_DNS_ERROR_ZONE_DOES_NOT_EXIST"
NAME_DOES_NOT_EXIST == "WERR_DNS_ERROR_NAME_DOES_NOT_EXIST"
RECORD_ALREADY_EXISTS == "WERR_DNS_ERROR_RECORD_ALREADY_EXISTS"
RECORD_DOES_NOT_EXIST == "WERR_DNS_ERROR_RECORD_DOES_NOT_EXIST"

\* stderr is kept as the set of the error markers its text contains.
Stderrs == {{}, {ZONE_DOES_NOT_EXIST}, {NAME_DOES_NOT_EXIST},
            {RECORD_ALREADY_EXISTS}}
RCs == {0, 255}

NoReply == [rc |-> 0, stdout |-> <<>>, stderr |-> {}, sent |-> FALSE]
Reply(rc, stdout, stderr) ==
    [rc |-> rc, stdout |-> stdout, stderr |-> stderr, sent |-> TRUE]

\* stdout of a query, one element per line:
\*    Name=, Records=2, Children=0
\*      A: 10.1.1.123 (flags=f0, serial=0, ttl=1800)
HeaderLine(n) ==
    [kind |-> "header", records |-> n, type |-> "", value |-> <<>>,
     flags |-> "", serial |-> "", ttl |-> ""]
RecordLine(r) ==
    [kind |-> "record", records |-> 0, type |-> r.type, value |-> r.value,
     flags |-> "f0", serial |-> "0", ttl |-> "1800"]

Held(z, name, type) == {r \in z : r.name = name /\ r.type = type}

\* The listings of a set of records, in every order.
Listings(S) ==
    {<<HeaderLine(Cardinality(S))>> \o [i \in 1..Cardinality(S) |-> RecordLine(f[i])] :
        f \in {g \in [1..Cardinality(S) -> S] :
                 \A i, j \in 1..Cardinality(S) : g[i] = g[j] => i = j}}

\* `samba-tool dns query server zone name type` answering by its contract.
SambaQuery(z, exists, name, type) ==
    IF ~exists THEN {Reply(255, <<>>, {ZONE_DOES_NOT_EXIST})}
    ELSE IF {r \in z : r.name = name} = {}
        THEN {Reply(255, <<>>, {NAME_DOES_NOT_EXIST})}
    ELSE {Reply(0, out, {}) : out \in Listings(Held(z, name, type))}

\* Any answer to a query: every exit code, every stderr, stdout empty or a listing.
AnyQuery(z, name, type) ==
    {Reply(rc, out, err) : rc \in RCs, err \in Stderrs,
        out \in {<<>>} \cup Listings(Held(z, name, type))}

\* `samba-tool dns add|delete server zone name type value` answering by its
\* contract: the reply and the zone afterwards.
SambaMutate(z, exists, action, rec) ==
    IF ~exists THEN [reply |-> Reply(255, <<>>, {ZONE_DOES_NOT_EXIST}), zone |-> z]
    ELSE IF action = "add"
        THEN IF rec \in z
             THEN [reply |-> Reply(255, <<>>, {RECORD_ALREADY_EXISTS}), zone |-> z]
             ELSE [reply |-> Reply(0, <<>>, {}), zone |-> z \cup {rec}]
        ELSE IF rec \in z
             THEN [reply |-> Reply(0, <<>>, {}), zone |-> z \ {rec}]
             ELSE [reply |-> Reply(255, <<>>, {RECORD_DOES_NOT_EXIST}), zone |-> z]

\* A failing add or delete: a non-zero exit, any stderr, the zone untouched.
FailedMutate(z) ==
    {[reply |-> Reply(255, <<>>, err), zone |-> z] : err \in Stderrs}

----------------------------------------------------------------------------
(* SambaToolDNS.get_exist_dns *)

TypeText ==
    [t \in Types |->
        CASE t = "A" -> <<"A">>
          [] t = "AAAA" -> <<"A", "A", "A", "A">>
          [] t = "PTR" -> <<"P", "T", "R">>
          [] t = "CNAME" -> <<"C", "N", "A", "M", "E">>
          [] t = "NS" -> <<"N", "S">>
          [] t = "MX" -> <<"M", "X">>
          [] t = "SRV" -> <<"S", "R", "V">>
          [] OTHER -> <<"T", "X", "T">>]

IsSuffix(a, b) ==
    /\ Len(a) <= Len(b)
    /\ \A i \in 1..Len(a) : a[i] = b[Len(b) - Len(a) + i]

\* The group ([0-9.]+) of the pattern, followed by ` \(flags=`: the whole value
\* is one or more digits and dots.
ValueGroup(v) == Len(v) > 0 /\ Chars(v) \subseteq Digits \cup {"."}

\* The pattern '{}: ([0-9.]+) \(flags=(.*), serial=(.*), ttl=(.*)\)' with the
\* type filled in, searched (not anchored) in one line of stdout.
LineMatches(type, line) ==
    /\ line.kind = "record"
    /\ IsSuffix(TypeText[type], TypeText[line.type])
    /\ ValueGroup(line.value)

\* re.findall(pattern, stdout): one tuple of groups per match, in order.
findall(type, stdout) ==
    LET Test(line) == LineMatches(type, line)
        m == SelectSeq(stdout, Test)
    IN [i \in 1..Len(m) |-> <<m[i].value, m[i].flags, m[i].serial, m[i].ttl>>]

ZoneMissing(r) == ZONE_DOES_NOT_EXIST \in r.stderr
\* Mutant: the exit code of the query is not tested.
RecordMissingMarkerOnly(r) == NAME_DOES_NOT_EXIST \in r.stderr
\* `rc != 0 or 'WERR_DNS_ERROR_NAME_DOES_NOT_EXIST' in stderr`
RecordMissing(r) == r.rc # 0 \/ NAME_DOES_NOT_EXIST \in r.stderr

\* Mutant: the exit code is tested before the zone marker.
get_exist_dns_RcFirst(r, type) ==
    IF RecordMissing(r) THEN [failed |-> FALSE, records |-> <<>>]
    ELSE IF ZoneMissing(r) THEN [failed |-> TRUE, records |-> <<>>]
    ELSE [failed |-> FALSE, records |-> findall(type, r.stdout)]

\* The classification of the reply of the query: the module fails, or the
\* list of the records found is returned.
get_exist_dns(r, type) ==
    IF ZoneMissing(r) THEN [failed |-> TRUE, records |-> <<>>]
    ELSE IF RecordMissing(r) THEN [failed |-> FALSE, records |-> <<>>]
    ELSE [failed |-> FALSE, records |-> findall(type, r.stdout)]

----------------------------------------------------------------------------
(* Results handed to the framework *)

Running == [kind |-> "running", changed |-> FALSE, msg |-> "",
            samba_tool_stderr |-> {}, samba_tool_rc |-> 0]
\* module.exit_json(changed=..., msg=...); without changed= the framework
\* reports changed=False.
ExitJson(changed, msg) ==
    [kind |-> "exit", changed |-> changed, msg |-> msg,
     samba_tool_stderr |-> {}, samba_tool_rc |-> 0]
\* module.fail_json(msg=..., ...)
FailJson(msg, stderr, rc) ==
    [kind |-> "fail", changed |-> FALSE, msg |-> msg,
     samba_tool_stderr |-> stderr, samba_tool_rc |-> rc]

----------------------------------------------------------------------------
(* SambaToolDNS.manage_dns *)

NoValue == <<>>
\* cmdb + [action, server, zone, record, type(, value)] + cmdc
Command(p, action, value) ==
    [action |-> action, server |-> p.server, zone |-> p.zone,
     record |-> p.record, type |-> p.type, value |-> value,
     username |-> p.username, password |-> p.password]

\* Mutant: the query is built with the subcommand of manage_dns.
QueryCommandAsAdd(p) == Command(p, "add", p.value)

\* cmd of get_exist_dns
QueryCommand(p) == Command(p, "query", NoValue)

\* Mutant: the value is left out of the command, which then names the whole
\* record.
ManageCommandNoValue(p, action) == Command(p, action, NoValue)

\* cmd of manage_dns
ManageCommand(p, action) == Command(p, action, p.value)

\* The record an add or delete command names.
Target(cmd) == [name |-> cmd.record, type |-> cmd.type, value |-> cmd.value]

\* `if action not in ['add', 'delete']` fails the module before any command.
ValidAction(action) == action \in {"add", "delete"}

\* Mutant: the already-exists downgrade is attached to delete instead of add.
AlreadyExistsOnDelete(action, r) ==
    action = "delete" /\ r.rc # 0 /\ RECORD_ALREADY_EXISTS \in r.stderr

\* Mutant: manage_dns has no already-exists downgrade.
AlreadyExistsNever(action, r) == FALSE

\* Mutant: the downgrade does not look at the action.
AlreadyExistsAnyAction(action, r) ==
    r.rc # 0 /\ RECORD_ALREADY_EXISTS \in r.stderr

AlreadyExists(action, r) ==
    action = "add" /\ r.rc # 0 /\ RECORD_ALREADY_EXISTS \in r.stderr

\* Mutant: the exit code is not tested after the already-exists case.
manage_dns_IgnoresRc(action, r) ==
    IF action = "add" /\ r.rc # 0 /\ RECORD_ALREADY_EXISTS \in r.stderr
    THEN ExitJson(FALSE, "Rercord already present")
    ELSE Running

\* What manage_dns makes of the reply r to the command: the run ends with a
\* result, or manage_dns returns (Running).
manage_dns(action, r) ==
    IF AlreadyExists(action, r) THEN ExitJson(FALSE, "Rercord already present")
    ELSE IF r.rc # 0
        THEN FailJson(IF action = "add" THEN "Action add for record failed"
                      ELSE "Action delete for record failed", r.stderr, r.rc)
    ELSE Running

----------------------------------------------------------------------------
(* main *)

RecordValues(recs) == {recs[i][1] : i \in 1..Len(recs)}

HasValue(recs, value) == \E i \in 1..Len(recs) : recs[i][1] = value

\* Mutant: any record found under the name counts as the desired one.
PresentPlanAnyRecord(recs, value) ==
    IF Len(recs) > 0
    THEN [exit |-> ExitJson(FALSE, "Record already present"), action |-> "none",
          final |-> Running]
    ELSE [exit |-> Running, action |-> "add",
          final |-> ExitJson(TRUE, "Record has been created")]

\* Mutant: the delete is issued whenever a record is found, whatever its value.
AbsentPlanAnyRecord(recs, value) ==
    IF Len(recs) > 0
    THEN [exit |-> Running, action |-> "delete",
          final |-> ExitJson(TRUE, "Record has been deleted")]
    ELSE [exit |-> ExitJson(FALSE, "No such record found"), action |-> "none",
          final |-> Running]

\* The branch main() takes for a state and the records found: the result it
\* exits with at once (Running if none), the action it hands to manage_dns
\* outside check mode, and the result it exits with after it.
PresentPlan(recs, value) ==
    IF HasValue(recs, value)
    THEN [exit |-> ExitJson(FALSE, "Record already present"), action |-> "none",
          final |-> Running]
    ELSE [exit |-> Running, action |-> "add",
          final |-> ExitJson(TRUE, "Record has been created")]

AbsentPlan(recs, value) ==
    IF Len(recs) > 0
    THEN IF value \in RecordValues(recs)
         THEN [exit |-> Running, action |-> "delete",
               final |-> ExitJson(TRUE, "Record has been deleted")]
         ELSE [exit |-> ExitJson(FALSE, "Record found with different value"),
               action |-> "none", final |-> Running]
    ELSE [exit |-> ExitJson(FALSE, "No such record found"), action |-> "none",
          final |-> Running]

Plan(state, recs, value) ==
    IF state = "present" THEN PresentPlan(recs, value) ELSE AbsentPlan(recs, value)

\* Mutant: check mode is not consulted.
CallsToolAlways(check) == TRUE

\* `if not module.check_mode:` guards the call of manage_dns.
CallsTool(check) == ~check

----------------------------------------------------------------------------
(* The runs of the module *)

OtherType(type) == IF type = "A" THEN "AAAA" ELSE "A"

\* The records the zone may hold before the first run: records of the name and
\* the type of the task, of the same name and another type, and of another
\* name and the same type.
ZoneUniverse(p) ==
    {r \in [name : Names, type : {p.type, OtherType(p.type)}, value : Values] :
        /\ ValidValue(r.type, r.value)
        /\ r.name = p.record \/ r.type = p.type}

\* What is kept of a finished run.
Summary == [check_mode |-> check_mode, outcome |-> outcome, zone0 |-> zone0]

Init ==
    /\ params \in ParamSets
    /\ zoneExists \in BOOLEAN
    /\ zone \in {z \in SUBSET ZoneUniverse(params) :
                    /\ Cardinality(z) <= MaxZoneRecords
                    /\ ~zoneExists => z = {}}
    /\ smbtool \in BOOLEAN
    /\ faulted = FALSE
    /\ check_mode = FALSE
    /\ pc = "idle"
    /\ reply = NoReply
    /\ mreply = NoReply
    /\ exist_records = <<>>
    /\ invocations = <<>>
    /\ outcome = Running
    /\ zone0 = zone
    /\ external = {}
    /\ hist = <<>>

\* The framework starts main(): AnsibleModule(...) and SambaToolDNS(module),
\* which fails the module when samba-tool is not in $PATH.  Behaviours are
\* followed up to the end of the first run in which samba-tool broke its
\* contract.
StartRun ==
    /\ pc = "idle"
    /\ Len(hist) < MaxRuns
    /\ ~faulted
    /\ \E c \in BOOLEAN : check_mode' = c
    /\ zone0' = zone
    /\ IF smbtool
       THEN pc' = "query" /\ outcome' = Running
       ELSE /\ pc' = "done"
            /\ outcome' = FailJson("Failed to find required executable samba-tool", {}, 0)
    /\ UNCHANGED <<zone, zoneExists, smbtool, faulted, params, reply, mreply,
                   exist_records, invocations, external, hist>>

\* exist_records = st.get_exist_dns(record, type), samba-tool answering the
\* query with one of `replies`.
QueryStep(replies) ==
    /\ pc = "query"
    /\ \E r \in replies :
        LET res == get_exist_dns(r, params.type) IN
        /\ reply' = r
        /\ faulted' = (r \notin SambaQuery(zone, zoneExists, params.record, params.type))
        /\ invocations' = Append(invocations, QueryCommand(params))
        /\ IF res.failed
           THEN /\ outcome' = FailJson("Zone does not exists.", {}, 0)
                /\ pc' = "done"
                /\ UNCHANGED exist_records
           ELSE /\ exist_records' = res.records
                /\ pc' = "main"
                /\ UNCHANGED outcome
    /\ UNCHANGED <<zone, zoneExists, smbtool, params, check_mode, mreply,
                   zone0, external, hist>>

\* The query, answered by samba-tool's contract or in any other way.
Query ==
    QueryStep(SambaQuery(zone, zoneExists, params.record, params.type) \cup
              AnyQuery(zone, params.record, params.type))

\* The rest of main(): the branch on state, the call of manage_dns outside
\* check mode, and the exit; samba-tool answers the add or delete by its
\* contract or with one of `failures`.
ReconcileStep(failures) ==
    /\ pc = "main"
    /\ pc' = "done"
    /\ LET plan == Plan(params.state, exist_records, params.value)
           cmd == ManageCommand(params, plan.action)
       IN
       IF plan.exit # Running
       THEN /\ outcome' = plan.exit
            /\ UNCHANGED <<zone, mreply, invocations, faulted>>
       ELSE IF ~CallsTool(check_mode)
       THEN /\ outcome' = plan.final
            /\ UNCHANGED <<zone, mreply, invocations, faulted>>
       ELSE IF ~ValidAction(plan.action)
       THEN /\ outcome' = FailJson("Wrong action for managing DNS record", {}, 0)
            /\ UNCHANGED <<zone, mreply, invocations, faulted>>
       ELSE \E m \in {SambaMutate(zone, zoneExists, plan.action, Target(cmd))} \cup
                     failures :
            /\ zone' = m.zone
            /\ faulted' = (faulted \/ m # SambaMutate(zone, zoneExists, plan.action, Target(cmd)))
            /\ mreply' = m.reply
            /\ invocations' = Append(invocations, cmd)
            /\ outcome' = IF manage_dns(plan.action, m.reply) # Running
                          THEN manage_dns(plan.action, m.reply)
                          ELSE plan.final
    /\ UNCHANGED <<zoneExists, smbtool, params, check_mode, reply,
                   exist_records, zone0, external, hist>>

Reconcile == ReconcileStep(FailedMutate(zone))

\* The process of the run ends; the framework reports the result.
Exit ==
    /\ pc = "done"
    /\ hist' = Append(hist, Summary)
    /\ pc' = "idle"
    /\ check_mode' = FALSE
    /\ reply' = NoReply
    /\ mreply' = NoReply
    /\ exist_records' = <<>>
    /\ invocations' = <<>>
    /\ outcome' = Running
    /\ zone0' = zone
    /\ external' = {}
    /\ UNCHANGED <<zone, zoneExists, smbtool, faulted, params>>

Next == StartRun \/ Query \/ Reconcile \/ Exit

Spec == Init /\ [][Next]_vars

\* Another actor adds the record of the task to the zone after the query of
\* the run has returned and before its add or delete is issued.
ExternalAdd ==
    /\ pc = "main"
    /\ zoneExists
    /\ \E r \in {ManageCommand(params, "add")} :
        /\ Target(r) \notin zone
        /\ zone' = zone \cup {Target(r)}
        /\ external' = external \cup {Target(r)}
    /\ UNCHANGED <<zoneExists, smbtool, faulted, params, check_mode, pc, reply,
                   mreply, exist_records, invocations, outcome, zone0, hist>>

\* The steps of a run with samba-tool answering by its contract.
QueryByContract ==
    QueryStep(SambaQuery(zone, zoneExists, params.record, params.type))
ReconcileByContract == ReconcileStep({})

NextRace ==
    StartRun \/ QueryByContract \/ ReconcileByContract \/ Exit \/ ExternalAdd

\* The runs of the module with samba-tool answering by its contract and other
\* actors at work on the zone.
SpecRace == Init /\ [][NextRace]_vars

\* The lines samba-tool prints for records of the name of the task: of the
\* type asked for and of another type.
StdoutLines(p) ==
    {RecordLine(r) : r \in {q \in [type : {p.type, OtherType(p.type)}, value : Values] :
                                ValidValue(q.type, q.value)}}

\* Every stdout of at most MaxLines such lines, the empty one included.
Stdouts(p) == UNION {[1..n -> StdoutLines(p)] : n \in 0..MaxLines}

\* get_exist_dns about to classify and parse a reply with exit code 0 and
\* no marker in stderr.
InitParse ==
    /\ params \in ParamSets
    /\ reply \in {Reply(0, out, {}) : out \in Stdouts(params)}
    /\ pc = "parse"
    /\ zoneExists = TRUE
    /\ zone = {}
    /\ smbtool = TRUE
    /\ faulted = FALSE
    /\ check_mode = FALSE
    /\ mreply = NoReply
    /\ exist_records = <<>>
    /\ invocations = <<>>
    /\ outcome = Running
    /\ zone0 = {}
    /\ external = {}
    /\ hist = <<>>

\* Lines 169-185 of get_exist_dns on the reply.
Parse ==
    /\ pc = "parse"
    /\ pc' = "parsed"
    /\ exist_records' = get_exist_dns(reply, params.type).records
    /\ UNCHANGED <<zone, zoneExists, smbtool, faulted, params, check_mode, reply,
                   mreply, invocations, outcome, zone0, external, hist>>

NextParse == Parse

\* get_exist_dns as a function of the reply of the query.
SpecParse == InitParse /\ [][NextParse]_vars

----------------------------------------------------------------------------
(* Vocabulary of the properties *)

Done == pc = "done"
Changed(o) == o.kind = "exit" /\ o.changed
Unchanged(o) == o.kind = "exit" /\ ~o.changed
Failed(o) == o.kind = "fail"

Queries == {i \in 1..Len(invocations) : invocations[i].action = "query"}
Adds == {i \in 1..Len(invocations) : invocations[i].action = "add"}
Deletes == {i \in 1..Len(invocations) : invocations[i].action = "delete"}
NonQueries == {i \in 1..Len(invocations) : invocations[i].action # "query"}

\* The record the task names.
Desired == [name |-> params.record, type |-> params.type, value |-> params.value]
\* The values of the records get_exist_dns returned.
FoundValues == {exist_records[i][1] : i \in 1..Len(exist_records)}
\* The values the zone held under the record name and type when the run began.
HeldValues == {r.value : r \in {q \in zone0 : q.name = params.record /\ q.type = params.type}}
DottedDecimal(v) == \A i \in 1..Len(v) : v[i] \in Digits \cup {"."}

Again == Len(hist) > 0
Prev == hist[Len(hist)]

----------------------------------------------------------------------------
(* C1 *)

\* C1: when two runs in real mode follow each other with the same task, with
\* samba-tool answering by its contract and nobody else changing the zone, and
\* the first run reported changed=True, the second run reports changed=False:
\* it neither reports a change again nor fails.
IdempotentOutcome ==
    (/\ Done /\ Again /\ ~faulted
     /\ ~check_mode /\ ~Prev.check_mode
     /\ Changed(Prev.outcome))
    => Unchanged(outcome)

\* A second real run, after the add of a value that is not dotted decimal,
\* ended unchanged.
IdempotentOutcomeReached ==
    /\ Done /\ Again /\ ~faulted /\ ~check_mode /\ ~Prev.check_mode
    /\ Changed(Prev.outcome) /\ Unchanged(outcome)
    /\ params.state = "present" /\ ~DottedDecimal(params.value)

----------------------------------------------------------------------------
(* C2 *)

\* C2: when a real run has ended without failure and the module runs again
\* with the same task, samba-tool answering by its contract and nobody else
\* changing the zone, the second run issues the query and no add or delete.
SecondRunOnlyQueries ==
    (/\ Done /\ Again /\ ~faulted
     /\ ~Prev.check_mode /\ Prev.outcome.kind = "exit")
    => /\ Len(invocations) = 1
       /\ invocations[1].action = "query"

----------------------------------------------------------------------------
(* C3 *)

\* C3: after a real run that ended without failure, samba-tool answering by
\* its contract, the zone holds the value of the task under the record name if
\* state=present and does not hold it if state=absent.
DesiredStateAchieved ==
    (Done /\ ~faulted /\ ~check_mode /\ outcome.kind = "exit")
    => /\ params.state = "present" => Desired \in zone
       /\ params.state = "absent" => Desired \notin zone

----------------------------------------------------------------------------
(* C4 *)

\* The query of the current run was answered by samba-tool's contract.
QueryAnswered ==
    reply.sent /\ reply \in SambaQuery(zone0, zoneExists, params.record, params.type)
\* The record name holds records, and none is the desired one.
HoldsOthersOnly ==
    {r \in zone0 : r.name = params.record} # {} /\ Desired \notin zone0
AddsDesiredOnce ==
    /\ Cardinality(Adds) = 1
    /\ \A i \in Adds :
        /\ invocations[i].record = params.record
        /\ invocations[i].type = params.type
        /\ invocations[i].value = params.value
    /\ mreply.sent
    /\ mreply.rc = 0 => outcome = ExitJson(TRUE, "Record has been created")

\* C4 as stated: a state=present run never issues a delete, and when the
\* record name holds values none of which is the desired one, the run issues
\* exactly one add of the desired value, reports Changed when the add exits
\* zero, and every record held before is still held.
NonDestructiveAddEveryMode ==
    /\ params.state = "present" => Deletes = {}
    /\ (Done /\ params.state = "present" /\ QueryAnswered /\ HoldsOthersOnly)
       => AddsDesiredOnce /\ zone0 \subseteq zone

\* C4, amended: a state=present run never issues a delete; when the record
\* name holds values none of which is the desired one, a run in real mode
\* issues exactly one add of the desired value and reports Changed when the add
\* exits zero, a run in check mode issues no add and reports Changed, and in
\* both every record held before is still held.
NonDestructiveAdd ==
    /\ params.state = "present" => Deletes = {}
    /\ (Done /\ params.state = "present" /\ QueryAnswered /\ HoldsOthersOnly)
       => /\ zone0 \subseteq zone
          /\ ~check_mode => AddsDesiredOnce
          /\ check_mode => Adds = {} /\ Changed(outcome) /\ zone = zone0

\* A real run added a value next to another value of the same name and type.
NonDestructiveAddReached ==
    /\ Done /\ params.state = "present" /\ QueryAnswered /\ HoldsOthersOnly
    /\ ~check_mode /\ HeldValues # {} /\ Cardinality(Adds) = 1
    /\ Changed(outcome) /\ zone = zone0 \cup {Desired}

----------------------------------------------------------------------------
(* C5 *)

\* C5: a state=absent run issues at most one delete, the delete names the
\* server, zone, record and type of the task and the desired value, and every
\* record of the zone other than the desired one is as it was when the run
\* began.
TargetedDelete ==
    params.state = "absent"
    => /\ Cardinality(Deletes) <= 1
       /\ \A i \in Deletes :
            /\ invocations[i].server = params.server
            /\ invocations[i].zone = params.zone
            /\ invocations[i].record = params.record
            /\ invocations[i].type = params.type
            /\ invocations[i].value = params.value
       /\ zone \ {Desired} = zone0 \ {Desired}

\* A run deleted the desired value and left another value of the record.
TargetedDeleteReached ==
    /\ Done /\ params.state = "absent" /\ Cardinality(Deletes) = 1
    /\ Desired \in zone0 /\ Desired \notin zone
    /\ HeldValues \ {params.value} # {}
    /\ zone = zone0 \ {Desired}

----------------------------------------------------------------------------
(* C6 *)

\* C6: a run in check mode issues no add and no delete and leaves the zone as
\* it was; and when a check-mode run is followed, on the same zone content and
\* with samba-tool answering by its contract, by a real run that reports
\* Changed, the check-mode run reported Changed as well.
DryRunNeverMutates ==
    /\ check_mode => NonQueries = {} /\ zone = zone0 /\ ~mreply.sent
    /\ (/\ Done /\ Again /\ ~faulted /\ ~check_mode /\ Prev.check_mode
        /\ Prev.zone0 = zone0 /\ Changed(outcome))
       => Changed(Prev.outcome)

\* A check-mode run announced a change and the real run after it made it.
DryRunNeverMutatesReached ==
    /\ Done /\ Again /\ ~faulted /\ ~check_mode /\ Prev.check_mode
    /\ Prev.zone0 = zone0 /\ Changed(outcome) /\ Changed(Prev.outcome)
    /\ zone # zone0

----------------------------------------------------------------------------
(* C7 *)

\* C7: whenever the stderr of the query contains the zone-does-not-exist
\* marker, whatever the exit code and stdout, the run ends at once with the
\* failure 'Zone does not exists.': no record list is returned and no add or
\* delete is issued.
ZoneMissingIsFatal ==
    (reply.sent /\ ZONE_DOES_NOT_EXIST \in reply.stderr)
    => /\ Done
       /\ Failed(outcome)
       /\ outcome.msg = "Zone does not exists."
       /\ exist_records = <<>>
       /\ NonQueries = {}
       /\ ~mreply.sent
       /\ zone = zone0

\* The marker came with exit code zero and a listing of records that match.
ZoneMissingIsFatalReached ==
    /\ reply.sent /\ ZONE_DOES_NOT_EXIST \in reply.stderr
    /\ reply.rc = 0
    /\ \E i \in 1..Len(reply.stdout) :
        reply.stdout[i].kind = "record" /\ DottedDecimal(reply.stdout[i].value)
    /\ Failed(outcome)

----------------------------------------------------------------------------
(* C8 *)

\* C8: at the end of a real state=absent run a delete has been issued if and
\* only if the desired value is among the values get_exist_dns returned; when
\* the list returned is empty the run ends unchanged with 'No such record
\* found', when it is not empty and lacks the desired value the run ends
\* unchanged with 'Record found with different value', both without add or
\* delete.
EnsureAbsentDecision ==
    (Done /\ params.state = "absent" /\ ~check_mode)
    => /\ Deletes # {} <=> params.value \in FoundValues
       /\ Adds = {}
       /\ (~Failed(outcome) /\ exist_records = <<>>)
          => /\ outcome = ExitJson(FALSE, "No such record found")
             /\ NonQueries = {}
       /\ (exist_records # <<>> /\ params.value \notin FoundValues)
          => /\ outcome = ExitJson(FALSE, "Record found with different value")
             /\ NonQueries = {}

\* A real run found the desired value next to another one and deleted it.
EnsureAbsentDeleteReached ==
    /\ Done /\ params.state = "absent" /\ ~check_mode
    /\ params.value \in FoundValues /\ Cardinality(FoundValues) > 1
    /\ Deletes # {} /\ Changed(outcome)

----------------------------------------------------------------------------
(* C9 *)

\* C9: at the end of a real state=present run that did not fail, samba-tool
\* answering by its contract, an add has been issued if and only if no record
\* get_exist_dns returned has the desired value; with an empty list the run is
\* one query, one add and ends Changed ('Record has been created'), and with
\* a record of the desired value it is one query and ends unchanged.
EnsurePresentDecision ==
    (Done /\ params.state = "present" /\ ~check_mode /\ ~faulted
     /\ outcome.kind = "exit")
    => /\ Adds # {} <=> params.value \notin FoundValues
       /\ exist_records = <<>>
          => /\ Len(invocations) = 2
             /\ Queries = {1} /\ Adds = {2}
             /\ outcome = ExitJson(TRUE, "Record has been created")
       /\ params.value \in FoundValues
          => /\ Len(invocations) = 1 /\ Queries = {1}
             /\ Unchanged(outcome)

----------------------------------------------------------------------------
(* C10 *)

\* Add and delete come second, after the query has returned; nothing comes
\* third.
QueryThenAtMostOne ==
    /\ Len(invocations) <= 2
    /\ Queries \subseteq {1}
    /\ NonQueries \subseteq {2}
    /\ NonQueries # {} => Queries = {1} /\ reply.sent

\* C10 as stated: every finished run, in every mode and on every path, has
\* issued exactly one query, first, and then at most one add or delete.
OneQueryOnEveryPath ==
    /\ QueryThenAtMostOne
    /\ Done => Queries = {1}

\* C10, amended: every run issues at most one query, first, and then at most
\* one add or delete, never before the query has returned and never more than
\* two commands; a finished run has issued exactly one query if samba-tool was
\* found, and no command at all if it was not (the run fails before the query).
InvocationOrder ==
    /\ QueryThenAtMostOne
    /\ (Done /\ smbtool) => Queries = {1}
    /\ (Done /\ ~smbtool) => invocations = <<>> /\ Failed(outcome)

\* A run ended in failure after the query and a delete, in this order.
InvocationOrderReached ==
    /\ Done /\ smbtool /\ Len(invocations) = 2 /\ Failed(outcome)
    /\ invocations[1].action = "query" /\ invocations[2].action = "delete"

----------------------------------------------------------------------------
(* C11 *)

\* C11: a real run reports Changed only if it issued an add or delete and
\* that command exited zero; when a delete exits non-zero, or an add exits
\* non-zero with a stderr lacking the already-exists marker, the run ends in
\* failure carrying the stderr and the exit code of the command.
NoPartialSuccess ==
    (Done /\ ~check_mode)
    => /\ Changed(outcome)
          => NonQueries # {} /\ mreply.sent /\ mreply.rc = 0
       /\ (/\ mreply.sent /\ mreply.rc # 0
           /\ Deletes # {} \/ RECORD_ALREADY_EXISTS \notin mreply.stderr)
          => /\ Failed(outcome)
             /\ outcome.samba_tool_stderr = mreply.stderr
             /\ outcome.samba_tool_rc = mreply.rc

\* An add exited non-zero without the marker and the run failed with its
\* stderr and exit code.
NoPartialSuccessReached ==
    /\ Done /\ ~check_mode /\ Adds # {} /\ mreply.sent /\ mreply.rc # 0
    /\ mreply.stderr = {NAME_DOES_NOT_EXIST}
    /\ Failed(outcome) /\ outcome.samba_tool_rc = 255
    /\ outcome.samba_tool_stderr = {NAME_DOES_NOT_EXIST}

----------------------------------------------------------------------------
(* C12 *)

\* C12: when an add exits non-zero with the already-exists marker in stderr
\* the run ends with changed=False, neither failed nor changed; a delete that
\* exits non-zero with the same marker ends the run in failure.
AlreadyExistsDowngrade ==
    (Done /\ mreply.sent /\ mreply.rc # 0
     /\ RECORD_ALREADY_EXISTS \in mreply.stderr)
    => /\ Adds # {} => Unchanged(outcome)
       /\ Deletes # {} => Failed(outcome)

\* A delete was answered with the marker and a non-zero exit, and failed.
AlreadyExistsDowngradeReached ==
    /\ Done /\ mreply.sent /\ mreply.rc # 0
    /\ RECORD_ALREADY_EXISTS \in mreply.stderr
    /\ Deletes # {} /\ Failed(outcome)

----------------------------------------------------------------------------
(* C13 *)

\* C13: in a real run with state=present, when another actor adds the record
\* of the task after the query has returned and before the add is issued,
\* the run issues its add and ends with changed=False, and the zone is what
\* it was when the run began plus the record of the task.
ToleratedRace ==
    (Done /\ params.state = "present" /\ ~check_mode /\ Desired \in external)
    => /\ Adds # {}
       /\ mreply.rc # 0 /\ RECORD_ALREADY_EXISTS \in mreply.stderr
       /\ Unchanged(outcome)
       /\ Desired \notin zone0
       /\ zone = zone0 \cup {Desired}

\* The race happened on a name that held another value, and the run ended
\* unchanged after its add.
ToleratedRaceReached ==
    /\ Done /\ params.state = "present" /\ ~check_mode /\ Desired \in external
    /\ Adds # {} /\ Unchanged(outcome)
    /\ HeldValues # {} /\ zone = zone0 \cup {Desired}

----------------------------------------------------------------------------
(* C14 *)

\* The lines of stdout whose type is the type asked for, as the tuples
\* (value, flags, serial, ttl), in the order of stdout.
LinesOfType(type, stdout) ==
    LET Test(line) == line.kind = "record" /\ line.type = type
        m == SelectSeq(stdout, Test)
    IN [i \in 1..Len(m) |-> <<m[i].value, m[i].flags, m[i].serial, m[i].ttl>>]

\* C14: for every type and every stdout made of record lines, get_exist_dns
\* returns one tuple (value, flags, serial, ttl) per line of the type asked
\* for, in the order of the lines, none omitted and none of another type
\* included; an empty stdout gives the empty list.
ParsesEveryLine ==
    pc = "parsed" => exist_records = LinesOfType(params.type, reply.stdout)

----------------------------------------------------------------------------
(* C15 *)

\* The query was answered without the zone marker and with a non-zero exit
\* code or the name marker.
AnsweredAbsent ==
    /\ reply.sent
    /\ ZONE_DOES_NOT_EXIST \notin reply.stderr
    /\ reply.rc # 0 \/ NAME_DOES_NOT_EXIST \in reply.stderr

\* After such an answer the run went on with the empty list, and a
\* state=absent run ended unchanged with 'No such record found' and no add
\* or delete.
AbsentAnswerIsEmptyList ==
    AnsweredAbsent
    => /\ exist_records = <<>>
       /\ pc \in {"main", "done"}
       /\ Done => ~(Failed(outcome) /\ NonQueries = {})
       /\ (Done /\ params.state = "absent")
          => outcome = ExitJson(FALSE, "No such record found") /\ NonQueries = {}

\* C15 as stated: as above, and every state=present run issues an add.
RecordAbsentEveryMode ==
    /\ AbsentAnswerIsEmptyList
    /\ (AnsweredAbsent /\ Done /\ params.state = "present") => Adds # {}

\* C15: when the stderr of the query has no zone marker and its exit code is
\* non-zero or stderr has the name marker, get_exist_dns returns the empty
\* list whatever stdout holds and the run does not fail at the query; a
\* state=absent run ends unchanged with 'No such record found' and no add or
\* delete; a state=present run in real mode issues one add of the desired
\* value and nothing else, and in check mode it issues no add and reports
\* the change.
RecordAbsentClassification ==
    /\ AbsentAnswerIsEmptyList
    /\ (AnsweredAbsent /\ Done /\ params.state = "present")
       => IF check_mode
          THEN NonQueries = {} /\ outcome = ExitJson(TRUE, "Record has been created")
          ELSE /\ Len(invocations) = 2
               /\ invocations[2] = ManageCommand(params, "add")

\* A query exited non-zero with the listing of the desired value on stdout
\* and no marker, and the real run went on to add the value.
RecordAbsentClassificationReached ==
    /\ Done /\ params.state = "present" /\ ~check_mode
    /\ reply.sent /\ reply.rc # 0 /\ reply.stderr = {}
    /\ \E i \in 1..Len(reply.stdout) :
          LineMatches(params.type, reply.stdout[i]) /\ reply.stdout[i].value = params.value
    /\ exist_records = <<>>
    /\ Adds # {}

----------------------------------------------------------------------------
(* C16 *)

\* C16: when a run in check mode is followed by a run in real mode with the
\* same task on the same zone content, samba-tool answering by its contract
\* and nobody else changing the zone, the check-mode run reported Changed if
\* and only if the real run reports Changed.
DryRunPredictsRealRun ==
    (/\ Done /\ Again /\ ~faulted
     /\ ~check_mode /\ Prev.check_mode
     /\ Prev.zone0 = zone0)
    => (Changed(Prev.outcome) <=> Changed(outcome))

====
